---- MODULE Spec2Model ----
(***************************************************************************)
(* Model of src/lib.rs: the macro define_shared_mut! and its three         *)
(* instantiations                                                          *)
(*   rc_refcell : SharedPtr = Rc<RefCell<T>>,  read = borrow, write = borrow_mut *)
(*   arc_mutex  : SharedPtr = Arc<Mutex<T>>,   read = lock,   write = lock       *)
(*   arc_rwlock : SharedPtr = Arc<RwLock<T>>,  read = read,   write = write      *)
(* Mutex and RwLock are parking_lot's (lib.rs:233-236, 252-256): they      *)
(* block on contention and have no poisoning.  RefCell panics on a         *)
(* conflicting borrow.                                                     *)
(*                                                                         *)
(* An allocation is the Rc/Arc box: strong and weak counts, the            *)
(* synchronisation wrapper and the value.  Strong handles (SharedPtr),     *)
(* weak handles (WeakPtr) and guards are slots of small tables.            *)
(***************************************************************************)
EXTENDS Integers, FiniteSets, Sequences, TLC

\* ---------------------------------------------------------------- bounds
NumThreads == 2
MaxAllocs == 2
MaxHandles == 2
MaxWeaks == 1
MaxGuards == 2
MaxValue == 1

Threads == 1..NumThreads
Allocs == 1..MaxAllocs
HandleIds == 1..MaxHandles
WeakIds == 1..MaxWeaks
\* eq, partial_cmp and cmp hold two read guards at once, as temporaries.
TempGuards == 2
\* Guard slots: the guards the program keeps, and each thread's temporaries.
GuardIds == 1..(MaxGuards + TempGuards * NumThreads)
Values == 0..MaxValue

Variants == {"rc_refcell", "arc_mutex", "arc_rwlock"}

\* A handle slot holding no handle; a weak slot made by WeakPtr::new().
NoAlloc == 0
Dangling == -1
\* The value after its destructor has run.
Destroyed == -1

NoGuard == [alloc |-> 0, kind |-> "none", thread |-> 0, handle |-> 0]
NoReq == [h |-> 0, kind |-> "none"]
\* A thread that is not inside a multi-step operation.
NoCall == [op |-> "none", l |-> 0, r |-> 0, w |-> 0, seen |-> 0,
           stage |-> "none", held |-> {}]

VARIABLES
    variant,    \* which instantiation of the macro the program uses
    status,     \* allocation -> "free" | "live" | "dropped"
    value,      \* allocation -> the contained T (Destroyed once dropped)
    strong,     \* allocation -> Rc/Arc strong count
    weak,       \* allocation -> Rc/Arc weak count
    borrow,     \* allocation -> RefCell borrow flag (rc_refcell)
    locked,     \* allocation -> Mutex locked bit (arc_mutex)
    rwstate,    \* allocation -> RwLock [writer bit, reader count] (arc_rwlock)
    handles,    \* strong handle slot -> allocation (NoAlloc: empty slot)
    origin,     \* strong handle slot -> allocation of the new() it descends from
    weaks,      \* weak handle slot -> allocation | Dangling | NoAlloc
    guards,     \* guard slot -> [alloc, kind, thread, handle] | NoGuard
    pc,         \* thread -> "run" | "wait_lock" | "wait_readers" | "dead"
    req,        \* thread -> the read()/write() call it is blocked in
    last,       \* the last completed call and its result
    committed,  \* allocation -> value at the last write-guard release
    drops,      \* allocation -> how many times the value's destructor ran
    unwound,    \* allocation -> a holder panicked while holding a guard on it
    call        \* thread -> the derived operation (eq, cmp, hash, fmt) or
                \* upgrade it is in the middle of, or NoCall

vars == <<variant, status, value, strong, weak, borrow, locked, rwstate,
          handles, origin, weaks, guards, pc, req, last, committed, drops,
          unwound, call>>

allocVars == <<status, value, strong, weak, drops>>
lockVars == <<borrow, locked, rwstate>>
handleVars == <<handles, origin>>
threadVars == <<pc, req>>

\* ------------------------------------------------------------- helpers
Min(S) == CHOOSE x \in S : \A y \in S : x <= y

FreeAllocs == {a \in Allocs : status[a] = "free"}
FreeHandles == {h \in HandleIds : handles[h] = NoAlloc}
FreeWeaks == {w \in WeakIds : weaks[w] = NoAlloc}
FreeGuards == {g \in GuardIds : guards[g] = NoGuard}
LiveHandles == {h \in HandleIds : handles[h] # NoAlloc}
LiveWeaks == {w \in WeakIds : weaks[w] # NoAlloc}
LiveGuards == {g \in GuardIds : guards[g] # NoGuard}

\* Mutant: guards that do not borrow the handle they came from.
BorrowedNever(h) == FALSE

GuardsOn(a) == {g \in LiveGuards : guards[g].alloc = a}
ReadGuardsOn(a) == {g \in GuardsOn(a) : guards[g].kind = "read"}
WriteGuardsOn(a) == {g \in GuardsOn(a) : guards[g].kind = "write"}
GuardsOf(t) == {g \in LiveGuards : guards[g].thread = t}
\* A handle is borrowed (&self) by the guards taken through it and by a
\* read()/write() call that has not returned yet.
Borrowed(h) ==
    \/ \E g \in LiveGuards : guards[g].handle = h
    \/ \E t \in Threads : req[t].h = h
    \/ \E t \in Threads : call[t] # NoCall /\ h \in {call[t].l, call[t].r}

\* upgrade(&self) borrows the weak handle until it returns.
WeakBorrowed(w) == \E t \in Threads : call[t] # NoCall /\ call[t].w = w

\* Rc is neither Send nor Sync: rc_refcell runs in one execution context.
CanRun(t) ==
    /\ pc[t] = "run"
    /\ call[t] = NoCall
    /\ variant = "rc_refcell" => t = 1

Done(op, t, a, res, val) ==
    [op |-> op, t |-> t, a |-> a, res |-> res, val |-> val]


Waiting == {t \in Threads : pc[t] \in {"wait_lock", "wait_readers"}}
InCall(t) == call[t] # NoCall
\* The guards a derived operation of thread t has taken so far: they live
\* in the operation's expression and are dropped when it returns.
Temporaries(t) == IF InCall(t) THEN GuardsOf(t) \ call[t].held ELSE {}
KeptGuards == {g \in LiveGuards : g \notin Temporaries(guards[g].thread)}
\* A blocked read() or write() will need a guard slot when it is granted.
SlotsInUse ==
    Cardinality(KeptGuards) + Cardinality({t \in Waiting : ~InCall(t)})

\* ----------------------------------------------- synchronisation wrappers
\* RefCell::borrow succeeds unless the cell is mutably borrowed (flag < 0).
RefCellCanBorrow(flag) == flag >= 0
\* Mutant: borrow_mut that only excludes another writer.
RefCellCanBorrowMutLax(flag) == flag >= 0
\* RefCell::borrow_mut succeeds only when the cell is unused (flag = 0).
RefCellCanBorrowMut(flag) == flag = 0
\* Mutant: a lock() that does not wait for the holder.
MutexCanLockAlways(l) == TRUE
\* parking_lot Mutex::lock takes the lock when it is not held.
MutexCanLock(l) == ~l
\* Mutant: a read() that also waits for the other readers to leave.
RwCanReadAlone(s) == ~s.writer /\ s.readers = 0
\* parking_lot RwLock::read adds a reader unless the writer bit is set
\* (by a writer holding the lock or waiting for the readers to leave).
RwCanRead(s) == ~s.writer
\* RwLock::write first claims the writer bit ...
RwCanClaim(s) == ~s.writer
\* Mutant: a writer that does not wait for the readers.
RwReadersGoneNoWait(s) == TRUE
\* ... and then waits until the readers have left.
RwReadersGone(s) == s.readers = 0

\* The wrappers' state after the set G of guards has been dropped.
BorrowAfter(G) ==
    [a \in Allocs |->
        IF variant # "rc_refcell" THEN borrow[a]
        ELSE IF \E g \in G : guards[g].alloc = a /\ guards[g].kind = "write"
             THEN borrow[a] + 1
             ELSE borrow[a] - Cardinality({g \in G : guards[g].alloc = a})]

\* Mutant: dropping a MutexGuard leaves the mutex locked.
LockedKept(G) == locked

LockedAfter(G) ==
    [a \in Allocs |->
        IF variant # "arc_mutex" THEN locked[a]
        ELSE locked[a] /\ ~(\E g \in G : guards[g].alloc = a)]

RwAfter(G) ==
    [a \in Allocs |->
        IF variant # "arc_rwlock" THEN rwstate[a]
        ELSE [writer |-> rwstate[a].writer
                         /\ ~(\E g \in G : guards[g].alloc = a
                                           /\ guards[g].kind = "write"),
              readers |-> rwstate[a].readers
                          - Cardinality({g \in G : guards[g].alloc = a
                                                   /\ guards[g].kind = "read"})]]

\* The value a dropped write guard leaves behind is what later callers see.
CommittedAfter(G) ==
    [a \in Allocs |->
        IF \E g \in G : guards[g].alloc = a /\ guards[g].kind = "write"
        THEN value[a] ELSE committed[a]]

GuardsAfter(G) == [g \in GuardIds |-> IF g \in G THEN NoGuard ELSE guards[g]]

\* Dropping the guards in G (the guards' Drop).
DropGuards(G) ==
    /\ guards' = GuardsAfter(G)
    /\ borrow' = BorrowAfter(G)
    /\ locked' = LockedAfter(G)
    /\ rwstate' = RwAfter(G)
    /\ committed' = CommittedAfter(G)

\* Mutant: the panicking thread's guards vanish without their Drop running,
\* so what they held stays held.
UnwindKeepsLocks(t) ==
    /\ guards' = GuardsAfter(GuardsOf(t))
    /\ UNCHANGED <<borrow, locked, rwstate, committed>>
    /\ unwound' = [a \in Allocs |->
                      unwound[a] \/ (\E g \in GuardsOf(t) : guards[g].alloc = a)]
    /\ pc' = [pc EXCEPT ![t] = "dead"]
    /\ req' = [req EXCEPT ![t] = NoReq]

\* A panic in thread t unwinds its stack: every guard it holds is dropped
\* and the thread is gone.  parking_lot locks and RefCell keep no record
\* of it; unwound is the model's note of what std would call poisoning.
Unwind(t) ==
    /\ DropGuards(GuardsOf(t))
    /\ unwound' = [a \in Allocs |->
                      unwound[a] \/ (\E g \in GuardsOf(t) : guards[g].alloc = a)]
    /\ pc' = [pc EXCEPT ![t] = "dead"]
    /\ req' = [req EXCEPT ![t] = NoReq]

\* A guard of the given kind on h's allocation is handed to thread t, at
\* once ("granted") or after the thread was parked ("woken").  The caller
\* sees the value through the guard.
Grant(t, h, kind, res) ==
    /\ guards' = [guards EXCEPT ![Min(FreeGuards)] =
                     [alloc |-> handles[h], kind |-> kind,
                      thread |-> t, handle |-> h]]
    /\ last' = Done(kind, t, origin[h], res, value[handles[h]])

\* ------------------------------------------------------------------ Init
Init ==
    /\ variant \in Variants
    /\ status = [a \in Allocs |-> "free"]
    /\ value = [a \in Allocs |-> Destroyed]
    /\ strong = [a \in Allocs |-> 0]
    /\ weak = [a \in Allocs |-> 0]
    /\ borrow = [a \in Allocs |-> 0]
    /\ locked = [a \in Allocs |-> FALSE]
    /\ rwstate = [a \in Allocs |-> [writer |-> FALSE, readers |-> 0]]
    /\ handles = [h \in HandleIds |-> NoAlloc]
    /\ origin = [h \in HandleIds |-> NoAlloc]
    /\ weaks = [w \in WeakIds |-> NoAlloc]
    /\ guards = [g \in GuardIds |-> NoGuard]
    /\ pc = [t \in Threads |-> "run"]
    /\ req = [t \in Threads |-> NoReq]
    /\ last = Done("init", 0, NoAlloc, "none", Destroyed)
    /\ committed = [a \in Allocs |-> Destroyed]
    /\ drops = [a \in Allocs |-> 0]
    /\ unwound = [a \in Allocs |-> FALSE]
    /\ call = [t \in Threads |-> NoCall]

\* --------------------------------------------------------------- actions
\* SharedPtr::new(init): $ptr::new($guard::new(init)).
New(t, v) ==
    /\ CanRun(t)
    /\ FreeAllocs # {} /\ FreeHandles # {}
    /\ LET a == Min(FreeAllocs)
           h == Min(FreeHandles)
       IN /\ status' = [status EXCEPT ![a] = "live"]
          /\ value' = [value EXCEPT ![a] = v]
          /\ strong' = [strong EXCEPT ![a] = 1]
          /\ committed' = [committed EXCEPT ![a] = v]
          /\ handles' = [handles EXCEPT ![h] = a]
          /\ origin' = [origin EXCEPT ![h] = a]
          /\ last' = Done("new", 0, a, "ok", v)
    /\ UNCHANGED <<variant, call, weak, drops, lockVars, weaks, guards, threadVars,
                   unwound>>

\* Mutant: a clone that copies the value into an allocation of its own.
CloneDeep(t, h) ==
    /\ CanRun(t)
    /\ h \in LiveHandles /\ FreeHandles # {} /\ FreeAllocs # {}
    /\ LET a2 == Min(FreeAllocs)
           h2 == Min(FreeHandles)
       IN /\ status' = [status EXCEPT ![a2] = "live"]
          /\ value' = [value EXCEPT ![a2] = value[handles[h]]]
          /\ strong' = [strong EXCEPT ![a2] = 1]
          /\ committed' = [committed EXCEPT ![a2] = value[handles[h]]]
          /\ handles' = [handles EXCEPT ![h2] = a2]
          /\ origin' = [origin EXCEPT ![h2] = origin[h]]
          /\ last' = Done("clone", 0, origin[h], "ok", h2)
    /\ UNCHANGED <<variant, call, weak, drops, lockVars, weaks, guards, threadVars,
                   unwound>>

\* Clone for SharedPtr: $name(self.0.clone()), the Rc/Arc clone.
Clone(t, h) ==
    /\ CanRun(t)
    /\ h \in LiveHandles /\ FreeHandles # {}
    /\ LET a == handles[h]
           h2 == Min(FreeHandles)
       IN /\ strong' = [strong EXCEPT ![a] = @ + 1]
          /\ handles' = [handles EXCEPT ![h2] = a]
          /\ origin' = [origin EXCEPT ![h2] = origin[h]]
          /\ last' = Done("clone", 0, origin[h], "ok", h2)
    /\ UNCHANGED <<variant, call, status, value, weak, drops, lockVars, weaks,
                   guards, threadVars, committed, unwound>>

\* Dropping a strong handle (Rc/Arc drop).  A guard borrows the handle it
\* came from (read(&self) -> Guard<'_, T>), so a borrowed handle cannot go.
DropStrong(t, h) ==
    /\ CanRun(t)
    /\ h \in LiveHandles /\ ~Borrowed(h)
    /\ LET a == handles[h]
       IN /\ strong' = [strong EXCEPT ![a] = @ - 1]
          /\ IF strong[a] = 1
             THEN /\ status' = [status EXCEPT ![a] = "dropped"]
                  /\ value' = [value EXCEPT ![a] = Destroyed]
                  /\ drops' = [drops EXCEPT ![a] = @ + 1]
             ELSE UNCHANGED <<status, value, drops>>
          /\ last' = Done("drop", 0, origin[h], "ok", strong[a] - 1)
    /\ handles' = [handles EXCEPT ![h] = NoAlloc]
    /\ origin' = [origin EXCEPT ![h] = NoAlloc]
    /\ UNCHANGED <<variant, call, weak, lockVars, weaks, guards, threadVars,
                   committed, unwound>>

\* Mutant: a downgrade that takes the cell's lock to look at it, so it
\* cannot run while a write guard is out.
DowngradeLocking(t, h) ==
    /\ CanRun(t)
    /\ h \in LiveHandles /\ FreeWeaks # {}
    /\ WriteGuardsOn(handles[h]) = {}
    /\ weak' = [weak EXCEPT ![handles[h]] = @ + 1]
    /\ weaks' = [weaks EXCEPT ![Min(FreeWeaks)] = handles[h]]
    /\ last' = Done("downgrade", 0, origin[h], "ok", Min(FreeWeaks))
    /\ UNCHANGED <<variant, call, status, value, strong, drops, lockVars,
                   handleVars, guards, threadVars, committed, unwound>>

\* WeakPtr::downgrade(strong): $ptr::downgrade(&strong.0).
Downgrade(t, h) ==
    /\ CanRun(t)
    /\ h \in LiveHandles /\ FreeWeaks # {}
    /\ LET a == handles[h]
           w == Min(FreeWeaks)
       IN /\ weak' = [weak EXCEPT ![a] = @ + 1]
          /\ weaks' = [weaks EXCEPT ![w] = a]
          /\ last' = Done("downgrade", 0, origin[h], "ok", w)
    /\ UNCHANGED <<variant, call, status, value, strong, drops, lockVars,
                   handleVars, guards, threadVars, committed, unwound>>

\* WeakPtr::new(): <$weak_ptr<$guard<T>>>::new(), a weak with no allocation.
WeakNew(t) ==
    /\ CanRun(t)
    /\ FreeWeaks # {}
    /\ LET w == Min(FreeWeaks)
       IN /\ weaks' = [weaks EXCEPT ![w] = Dangling]
          /\ last' = Done("weak_new", 0, NoAlloc, "ok", w)
    /\ UNCHANGED <<variant, call, allocVars, lockVars, handleVars, guards,
                   threadVars, committed, unwound>>

\* Mutant: an upgrade without the check for a weak that has no allocation.
CanUpgradeUnchecked(w) == weaks[w] = Dangling \/ strong[weaks[w]] > 0
\* Mutant: an upgrade that succeeds while the allocation's memory is still
\* there (a weak handle keeps it), whatever the strong count.
CanUpgradeWhileAllocated(w) == weaks[w] # Dangling /\ status[weaks[w]] # "free"
\* Weak::upgrade: None for a dangling weak or a strong count of 0,
\* otherwise the strong count is incremented.
CanUpgrade(w) == weaks[w] # Dangling /\ strong[weaks[w]] > 0

\* Mutant: an upgrade that hands out a handle without counting it.
UpgradeUncounted(t, w) ==
    /\ CanRun(t)
    /\ w \in LiveWeaks
    /\ IF CanUpgrade(w)
       THEN /\ FreeHandles # {}
            /\ handles' = [handles EXCEPT ![Min(FreeHandles)] = weaks[w]]
            /\ origin' = [origin EXCEPT ![Min(FreeHandles)] = weaks[w]]
            /\ last' = Done("upgrade", 0, weaks[w], "some", Min(FreeHandles))
       ELSE /\ last' = Done("upgrade", 0, weaks[w], "none", NoAlloc)
            /\ UNCHANGED handleVars
    /\ UNCHANGED <<variant, call, status, value, strong, weak, drops, lockVars,
                   weaks, guards, threadVars, committed, unwound>>

\* WeakPtr::upgrade(): self.0.upgrade().map($name).
Upgrade(t, w) ==
    /\ CanRun(t)
    /\ w \in LiveWeaks
    /\ IF CanUpgrade(w)
       THEN /\ FreeHandles # {}
            /\ LET a == weaks[w]
                   h2 == Min(FreeHandles)
               IN /\ strong' = [strong EXCEPT ![a] = @ + 1]
                  /\ handles' = [handles EXCEPT ![h2] = a]
                  /\ origin' = [origin EXCEPT ![h2] = a]
                  /\ last' = Done("upgrade", 0, weaks[w], "some", h2)
       ELSE /\ last' = Done("upgrade", 0, weaks[w], "none", NoAlloc)
            /\ UNCHANGED <<strong, handleVars>>
    /\ UNCHANGED <<variant, call, status, value, weak, drops, lockVars, weaks,
                   guards, threadVars, committed, unwound>>

\* Mutant: dropping a weak handle takes a strong count with it.
DropWeakCounted(t, w) ==
    /\ CanRun(t)
    /\ w \in LiveWeaks /\ ~WeakBorrowed(w)
    /\ weak' = IF weaks[w] = Dangling THEN weak
               ELSE [weak EXCEPT ![weaks[w]] = @ - 1]
    /\ strong' = IF weaks[w] = Dangling \/ strong[weaks[w]] = 0 THEN strong
                 ELSE [strong EXCEPT ![weaks[w]] = @ - 1]
    /\ weaks' = [weaks EXCEPT ![w] = NoAlloc]
    /\ last' = Done("drop_weak", 0, NoAlloc, "ok", w)
    /\ UNCHANGED <<variant, call, status, value, drops, lockVars,
                   handleVars, guards, threadVars, committed, unwound>>

\* Dropping a weak handle.
DropWeak(t, w) ==
    /\ CanRun(t)
    /\ w \in LiveWeaks /\ ~WeakBorrowed(w)
    /\ weak' = IF weaks[w] = Dangling THEN weak
               ELSE [weak EXCEPT ![weaks[w]] = @ - 1]
    /\ weaks' = [weaks EXCEPT ![w] = NoAlloc]
    /\ last' = Done("drop_weak", 0, NoAlloc, "ok", w)
    /\ UNCHANGED <<variant, call, status, value, strong, drops, lockVars,
                   handleVars, guards, threadVars, committed, unwound>>


\* A fatal request: the calling thread panics and unwinds.
Fatal(t, h, kind) ==
    /\ Unwind(t)
    /\ last' = Done(kind, t, origin[h], "panic", Destroyed)

\* Mutant: a request that gives up on contention (try_lock().unwrap()).
BlockPanics(t, h, kind) == Fatal(t, h, kind)

\* A request that has to wait: the thread parks inside the call.
Block(t, h, kind) ==
    /\ pc' = [pc EXCEPT ![t] = "wait_lock"]
    /\ req' = [req EXCEPT ![t] = [h |-> h, kind |-> kind]]
    /\ last' = Done(kind, t, origin[h], "blocked", Destroyed)

\* rc_refcell read(): RefCell::borrow, which panics when mutably borrowed.
Borrow(t, h) ==
    LET a == handles[h]
    IN IF RefCellCanBorrow(borrow[a])
       THEN /\ SlotsInUse < MaxGuards
            /\ borrow' = [borrow EXCEPT ![a] = @ + 1]
            /\ Grant(t, h, "read", "granted")
            /\ UNCHANGED <<locked, rwstate, threadVars, committed, unwound>>
       ELSE Fatal(t, h, "read")

\* rc_refcell write(): RefCell::borrow_mut, which panics when borrowed.
BorrowMut(t, h) ==
    LET a == handles[h]
    IN IF RefCellCanBorrowMut(borrow[a])
       THEN /\ SlotsInUse < MaxGuards
            /\ borrow' = [borrow EXCEPT ![a] = -1]
            /\ Grant(t, h, "write", "granted")
            /\ UNCHANGED <<locked, rwstate, threadVars, committed, unwound>>
       ELSE Fatal(t, h, "write")

\* arc_mutex read() and write(): both are Mutex::lock.
MutexLock(t, h, kind) ==
    LET a == handles[h]
    IN /\ SlotsInUse < MaxGuards
       /\ IF MutexCanLock(locked[a])
          THEN /\ locked' = [locked EXCEPT ![a] = TRUE]
               /\ Grant(t, h, kind, "granted")
               /\ UNCHANGED threadVars
          ELSE /\ Block(t, h, kind)
               /\ UNCHANGED <<locked, guards>>
       /\ UNCHANGED <<borrow, rwstate, committed, unwound>>

\* arc_rwlock read(): RwLock::read.
RwRead(t, h) ==
    LET a == handles[h]
    IN /\ SlotsInUse < MaxGuards
       /\ IF RwCanRead(rwstate[a])
          THEN /\ rwstate' = [rwstate EXCEPT ![a].readers = @ + 1]
               /\ Grant(t, h, "read", "granted")
               /\ UNCHANGED threadVars
          ELSE /\ Block(t, h, "read")
               /\ UNCHANGED <<rwstate, guards>>
       /\ UNCHANGED <<borrow, locked, committed, unwound>>

\* arc_rwlock write(): RwLock::write claims the writer bit, then waits
\* for the readers to leave.
RwWrite(t, h) ==
    LET a == handles[h]
    IN /\ SlotsInUse < MaxGuards
       /\ IF RwCanClaim(rwstate[a])
          THEN /\ rwstate' = [rwstate EXCEPT ![a].writer = TRUE]
               /\ IF RwReadersGone(rwstate[a])
                  THEN /\ Grant(t, h, "write", "granted")
                       /\ UNCHANGED threadVars
                  ELSE /\ pc' = [pc EXCEPT ![t] = "wait_readers"]
                       /\ req' = [req EXCEPT ![t] = [h |-> h, kind |-> "write"]]
                       /\ last' = Done("write", t, origin[h], "blocked", Destroyed)
                       /\ UNCHANGED guards
          ELSE /\ Block(t, h, "write")
               /\ UNCHANGED <<rwstate, guards>>
       /\ UNCHANGED <<borrow, locked, committed, unwound>>

\* self.read() as the derived operations call it: the same $read_fn.
ReadBody(t, h) ==
    /\ h \in LiveHandles
    /\ \/ variant = "rc_refcell" /\ Borrow(t, h)
       \/ variant = "arc_mutex" /\ MutexLock(t, h, "read")
       \/ variant = "arc_rwlock" /\ RwRead(t, h)
    /\ UNCHANGED <<variant, allocVars, handleVars, weaks>>

\* SharedPtr::read(): self.0.deref().$read_fn().
Read(t, h) ==
    /\ CanRun(t)
    /\ ReadBody(t, h)
    /\ UNCHANGED call

\* SharedPtr::write(): self.0.deref().$write_fn().
Write(t, h) ==
    /\ CanRun(t)
    /\ h \in LiveHandles
    /\ \/ variant = "rc_refcell" /\ BorrowMut(t, h)
       \/ variant = "arc_mutex" /\ MutexLock(t, h, "write")
       \/ variant = "arc_rwlock" /\ RwWrite(t, h)
    /\ UNCHANGED <<variant, call, allocVars, handleVars, weaks>>

\* A thread parked in Mutex::lock gets the lock once it is free.
MutexWake(t) ==
    /\ variant = "arc_mutex"
    /\ pc[t] = "wait_lock"
    /\ LET h == req[t].h
           a == handles[h]
       IN /\ MutexCanLock(locked[a])
          /\ locked' = [locked EXCEPT ![a] = TRUE]
          /\ Grant(t, h, req[t].kind, "woken")
    /\ pc' = [pc EXCEPT ![t] = "run"]
    /\ req' = [req EXCEPT ![t] = NoReq]
    /\ UNCHANGED <<variant, call, allocVars, handleVars, weaks, borrow, rwstate,
                   committed, unwound>>

\* A thread parked in RwLock::read or RwLock::write proceeds once the
\* writer bit is clear.
RwWake(t) ==
    /\ variant = "arc_rwlock"
    /\ pc[t] = "wait_lock"
    /\ LET h == req[t].h
           a == handles[h]
       IN IF req[t].kind = "read"
          THEN /\ RwCanRead(rwstate[a])
               /\ rwstate' = [rwstate EXCEPT ![a].readers = @ + 1]
               /\ Grant(t, h, "read", "woken")
               /\ pc' = [pc EXCEPT ![t] = "run"]
               /\ req' = [req EXCEPT ![t] = NoReq]
          ELSE /\ RwCanClaim(rwstate[a])
               /\ rwstate' = [rwstate EXCEPT ![a].writer = TRUE]
               /\ IF RwReadersGone(rwstate[a])
                  THEN /\ Grant(t, h, "write", "woken")
                       /\ pc' = [pc EXCEPT ![t] = "run"]
                       /\ req' = [req EXCEPT ![t] = NoReq]
                  ELSE /\ pc' = [pc EXCEPT ![t] = "wait_readers"]
                       /\ UNCHANGED <<req, guards, last>>
    /\ UNCHANGED <<variant, call, allocVars, handleVars, weaks, borrow, locked,
                   committed, unwound>>

\* A writer holding the writer bit gets its guard once the readers left.
RwReadersLeft(t) ==
    /\ variant = "arc_rwlock"
    /\ pc[t] = "wait_readers"
    /\ RwReadersGone(rwstate[handles[req[t].h]])
    /\ Grant(t, req[t].h, "write", "woken")
    /\ pc' = [pc EXCEPT ![t] = "run"]
    /\ req' = [req EXCEPT ![t] = NoReq]
    /\ UNCHANGED <<variant, call, allocVars, handleVars, weaks, lockVars,
                   committed, unwound>>

\* Whether a guard lets its holder assign (DerefMut): RefMut and
\* RwLockWriteGuard do, Ref and RwLockReadGuard do not, and in arc_mutex
\* read() and write() both return a MutexGuard, which does.
Mutable(g) == guards[g].kind = "write" \/ variant = "arc_mutex"

\* Assignment through a guard: *guard = v.
Store(t, g, v) ==
    /\ CanRun(t)
    /\ g \in GuardsOf(t) /\ Mutable(g)
    /\ value' = [value EXCEPT ![guards[g].alloc] = v]
    /\ last' = Done("store", 0, guards[g].alloc, "ok", v)
    /\ UNCHANGED <<variant, call, status, strong, weak, drops, lockVars,
                   handleVars, weaks, guards, threadVars, committed, unwound>>

\* The holder drops a guard (end of scope, early return, drop(guard)).
Release(t, g) ==
    /\ CanRun(t)
    /\ g \in GuardsOf(t)
    /\ DropGuards({g})
    /\ last' = Done("release", 0, guards[g].alloc, guards[g].kind, value[guards[g].alloc])
    /\ UNCHANGED <<variant, call, allocVars, handleVars, weaks, threadVars, unwound>>

\* A thread holding a guard panics for a reason of its own and unwinds.
\* (A thread that holds no guard and panics just stops taking steps.)
Panic(t) ==
    /\ CanRun(t)
    /\ GuardsOf(t) # {}
    /\ Unwind(t)
    /\ last' = Done("panic", t, NoAlloc, "panic", Destroyed)
    /\ UNCHANGED <<variant, call, allocVars, handleVars, weaks>>

\* ---------------------------------------------------- derived operations
\* PartialEq, PartialOrd and Ord read both operands; Hash and Debug read
\* self only.
BinaryOps == {"eq", "partial_cmp", "cmp"}
UnaryOps == {"hash", "fmt"}
DerivedOps == BinaryOps \cup UnaryOps

\* T::eq, T::partial_cmp / T::cmp on the values behind the two guards;
\* hash and fmt consume the value behind the one guard.
Outcome(op, x, y) ==
    CASE op = "eq" -> IF x = y THEN "true" ELSE "false"
      [] op \in {"partial_cmp", "cmp"} ->
             IF x < y THEN "less" ELSE IF x = y THEN "equal" ELSE "greater"
      [] op = "hash" -> "hashed"
      [] op = "fmt" -> "printed"

\* The call's thread after a read() inside it: gone if the read() was
\* fatal, otherwise at the given stage.
CallAfter(t, c) == [call EXCEPT ![t] = IF pc'[t] = "dead" THEN NoCall ELSE c]

\* The first step of every derived operation: self.read().
CmpBegin(t, op, l, r) ==
    /\ CanRun(t)
    /\ op \in DerivedOps
    /\ l \in LiveHandles
    /\ IF op \in BinaryOps THEN r \in LiveHandles ELSE r = 0
    /\ ReadBody(t, l)
    /\ call' = CallAfter(t, [op |-> op, l |-> l, r |-> r, w |-> 0, seen |-> 0,
                             stage |-> "left", held |-> GuardsOf(t)])

\* eq, partial_cmp, cmp: other.read(), taken while the guard of
\* self.read() is still alive.
CmpRight(t) ==
    /\ pc[t] = "run"
    /\ call[t].op \in BinaryOps /\ call[t].stage = "left"
    /\ ReadBody(t, call[t].r)
    /\ call' = CallAfter(t, [call[t] EXCEPT !.stage = "right"])

\* Mutant: the operation returns and the guard of self.read() is leaked.
TemporariesButFirst(t) ==
    Temporaries(t) \ {Min(Temporaries(t))}

\* Mutant: operands compared by the allocation they point to (ptr_eq).
SeenByIdentity(t, h) == handles[h]

\* What the operation sees of an operand: the value behind its guard.
Seen(t, h) == value[handles[h]]

\* The guards dropped when the operation returns: all its temporaries.
Dropped(t) == Temporaries(t)

\* The operation computes its result from the guarded values and returns;
\* the temporaries are dropped at the end of the expression.
CmpFinish(t) ==
    LET c == call[t]
    IN /\ pc[t] = "run"
       /\ \/ c.op \in BinaryOps /\ c.stage = "right"
          \/ c.op \in UnaryOps /\ c.stage = "left"
       /\ DropGuards(Dropped(t))
       /\ call' = [call EXCEPT ![t] = NoCall]
       /\ last' = Done(c.op, t, handles[c.l],
                       Outcome(c.op, Seen(t, c.l),
                               IF c.op \in BinaryOps THEN Seen(t, c.r) ELSE 0),
                       IF c.op \in BinaryOps THEN handles[c.r] ELSE NoAlloc)
       /\ UNCHANGED <<variant, allocVars, handleVars, weaks, threadVars,
                      unwound>>

\* ------------------------------------------- Arc's upgrade, step by step
\* Weak::upgrade of Arc first loads the strong count ...
UpgradeLoad(t, w) ==
    /\ CanRun(t)
    /\ variant \in {"arc_mutex", "arc_rwlock"}
    /\ w \in LiveWeaks
    /\ call' = [call EXCEPT ![t] =
                   [op |-> "upgrade", l |-> 0, r |-> 0, w |-> w,
                    seen |-> IF weaks[w] = Dangling THEN 0
                             ELSE strong[weaks[w]],
                    stage |-> "loaded", held |-> GuardsOf(t)]]
    /\ UNCHANGED <<variant, allocVars, lockVars, handleVars, weaks, guards,
                   threadVars, last, committed, unwound>>

\* Mutant: the count is stored back without comparing it.
CasBlind(t) == TRUE

\* compare_exchange succeeds only if the count is still the one loaded.
CasSucceeds(t) == strong[weaks[call[t].w]] = call[t].seen

\* ... returns None if it was 0, and otherwise increments it with a
\* compare-and-swap, loading again when another thread changed the count.
UpgradeCas(t) ==
    LET c == call[t]
        a == weaks[c.w]
    IN /\ pc[t] = "run"
       /\ c.op = "upgrade"
       /\ IF c.seen = 0
          THEN /\ call' = [call EXCEPT ![t] = NoCall]
               /\ last' = Done("upgrade", 0, a, "none", NoAlloc)
               /\ UNCHANGED <<strong, handleVars>>
          ELSE IF CasSucceeds(t)
          THEN /\ FreeHandles # {}
               /\ LET h2 == Min(FreeHandles)
                  IN /\ strong' = [strong EXCEPT ![a] = @ + 1]
                     /\ handles' = [handles EXCEPT ![h2] = a]
                     /\ origin' = [origin EXCEPT ![h2] = a]
                     /\ last' = Done("upgrade", 0, a, "some", h2)
               /\ call' = [call EXCEPT ![t] = NoCall]
          ELSE /\ call' = [call EXCEPT ![t] = [c EXCEPT !.seen = strong[a]]]
               /\ UNCHANGED <<strong, handleVars, last>>
       /\ UNCHANGED <<variant, status, value, weak, drops, lockVars, weaks,
                      guards, threadVars, committed, unwound>>

Next ==
    \/ \E t \in Threads, v \in Values : New(t, v)
    \/ \E t \in Threads, h \in HandleIds : Clone(t, h)
    \/ \E t \in Threads, h \in HandleIds : DropStrong(t, h)
    \/ \E t \in Threads, h \in HandleIds : Downgrade(t, h)
    \/ \E t \in Threads : WeakNew(t)
    \/ \E t \in Threads, w \in WeakIds : Upgrade(t, w)
    \/ \E t \in Threads, w \in WeakIds : DropWeak(t, w)
    \/ \E t \in Threads, h \in HandleIds : Read(t, h)
    \/ \E t \in Threads, h \in HandleIds : Write(t, h)
    \/ \E t \in Threads : MutexWake(t)
    \/ \E t \in Threads : RwWake(t)
    \/ \E t \in Threads : RwReadersLeft(t)
    \/ \E t \in Threads, g \in GuardIds, v \in Values : Store(t, g, v)
    \/ \E t \in Threads, g \in GuardIds : Release(t, g)
    \/ \E t \in Threads : Panic(t)

Spec == Init /\ [][Next]_vars

\* ------------------------------------------------------------ type check
TypeOK ==
    /\ variant \in Variants
    /\ status \in [Allocs -> {"free", "live", "dropped"}]
    /\ \A a \in Allocs : value[a] \in Values \cup {Destroyed}
    /\ \A a \in Allocs : strong[a] \in 0..MaxHandles /\ weak[a] \in 0..MaxWeaks
    /\ \A a \in Allocs : borrow[a] \in -1..Cardinality(GuardIds)
    /\ \A a \in Allocs : rwstate[a].readers \in 0..Cardinality(GuardIds)
    /\ \A t \in Threads :
          /\ call[t].op \in {"none", "eq", "partial_cmp", "cmp", "hash", "fmt",
                             "upgrade"}
          /\ call[t].l \in HandleIds \cup {0}
          /\ call[t].r \in HandleIds \cup {0}
          /\ call[t].w \in WeakIds \cup {0}
          /\ call[t].seen \in 0..MaxHandles
          /\ call[t].stage \in {"none", "left", "right", "loaded"}
          /\ call[t].held \subseteq GuardIds
    /\ \A h \in HandleIds : handles[h] \in Allocs \cup {NoAlloc}
    /\ \A w \in WeakIds : weaks[w] \in Allocs \cup {NoAlloc, Dangling}
    /\ \A t \in Threads : pc[t] \in {"run", "wait_lock", "wait_readers", "dead"}
    /\ \A t \in Threads : (pc[t] \in {"wait_lock", "wait_readers"}) <=> (req[t] # NoReq)


\* ================================================================ claims
LockVariants == {"arc_mutex", "arc_rwlock"}
Granted(l) == l.op \in {"read", "write"} /\ l.res \in {"granted", "woken"}
HandlesTo(a) == {h \in LiveHandles : handles[h] = a}
NoNewGuard == \A g \in GuardIds : guards'[g] \in {NoGuard, guards[g]}

\* C1 (as claimed): in every variant, a read() that is granted sees the
\* value committed by the most recently released write() guard of its
\* allocation, or the initial value when no write() guard was released.
C1_ReadSeesLastWriteGuard ==
    (last.op = "read" /\ Granted(last)) => last.val = committed[last.a]

\* C1, the part the code keeps: the claim holds in rc_refcell and
\* arc_rwlock, whose read guards cannot assign.
C1_HoldsWithReadOnlyGuards ==
    variant # "arc_mutex" => C1_ReadSeesLastWriteGuard

\* C1, the part the code keeps in every variant: a handle and its clones
\* share one allocation, so there is one value per new().
C1_OneValuePerAllocation ==
    \A h \in LiveHandles : handles[h] = origin[h]

\* ----------------------------------------------------------------- C2
C2_Exclusive ==
    variant = "rc_refcell" =>
        \A a \in Allocs :
            WriteGuardsOn(a) # {} => Cardinality(GuardsOn(a)) = 1

C2_Step ==
    variant = "rc_refcell" =>
        \A h \in LiveHandles :
            /\ Read(1, h) =>
                  IF WriteGuardsOn(handles[h]) # {}
                  THEN last'.res = "panic" /\ NoNewGuard
                  ELSE last'.res = "granted"
                       /\ Cardinality(ReadGuardsOn(handles[h])')
                            = Cardinality(ReadGuardsOn(handles[h])) + 1
            /\ Write(1, h) =>
                  IF GuardsOn(handles[h]) # {}
                  THEN last'.res = "panic" /\ NoNewGuard
                  ELSE last'.res = "granted"
                       /\ Cardinality(WriteGuardsOn(handles[h])') = 1

\* C2: in rc_refcell a write guard is the only guard on its allocation;
\* read() or write() while a write guard is out, and write() while any
\* guard is out, panics at the request and grants nothing; read() while
\* only read guards are out is granted.
C2_RefCellExclusivity == []C2_Exclusive /\ [][C2_Step]_vars

\* C2 witness: a request in rc_refcell has just panicked.
C2_Witness ==
    /\ variant = "rc_refcell"
    /\ last.op \in {"read", "write"} /\ last.res = "panic"
    /\ pc[1] = "dead"

\* A second witness of C2's other half: two read guards on one allocation.
C2_TwoReaders ==
    /\ variant = "rc_refcell"
    /\ \E a \in Allocs : Cardinality(ReadGuardsOn(a)) >= 2

\* ----------------------------------------------------------------- C3
\* C3: in arc_rwlock, on every allocation either no write guard is out
\* (any number of read guards may be) or exactly one write guard is out
\* and no read guard.
C3_RwLockExclusion ==
    variant = "arc_rwlock" =>
        \A a \in Allocs :
            \/ WriteGuardsOn(a) = {}
            \/ Cardinality(WriteGuardsOn(a)) = 1 /\ ReadGuardsOn(a) = {}

\* C3 witness: two threads hold read guards on the same allocation.
C3_Witness ==
    /\ variant = "arc_rwlock"
    /\ \E g1, g2 \in LiveGuards :
          /\ guards[g1].alloc = guards[g2].alloc
          /\ guards[g1].kind = "read" /\ guards[g2].kind = "read"
          /\ guards[g1].thread # guards[g2].thread

\* ----------------------------------------------------------------- C4
\* C4: in arc_mutex at most one guard, of either kind, is out per
\* allocation, over all threads and handles.
C4_MutexOneGuard ==
    variant = "arc_mutex" =>
        \A a \in Allocs : Cardinality(GuardsOn(a)) <= 1

\* C4 witness: a read() waits while another read() guard is out.
C4_Witness ==
    /\ variant = "arc_mutex"
    /\ \E t \in Threads, g \in LiveGuards :
          /\ pc[t] = "wait_lock" /\ req[t].kind = "read"
          /\ guards[g].kind = "read"
          /\ guards[g].alloc = handles[req[t].h]
          /\ guards[g].thread # t


\* ----------------------------------------------------------------- C5
WaitingOn(a) == {t \in Waiting : handles[req[t].h] = a}

C5_NotKeptAlive ==
    \A a \in Allocs :
        (status[a] # "free" /\ HandlesTo(a) = {}) =>
            status[a] = "dropped" /\ value[a] = Destroyed

C5_Step ==
    \A w \in LiveWeaks :
        (weaks[w] \in Allocs /\ HandlesTo(weaks[w]) = {}) =>
            \A t \in Threads :
                Upgrade(t, w) => last'.res = "none" /\ handles' = handles

\* C5: a weak handle does not keep the value alive: once no strong handle
\* of an allocation is left the value is destroyed, however many weak
\* handles exist, and upgrade() of a weak handle to it returns None.
C5_WeakDoesNotOwn == []C5_NotKeptAlive /\ [][C5_Step]_vars

\* C5 witness: upgrade() has just returned None for a weak handle that
\* was downgraded from a cell whose strong handles are all gone.
C5_Witness ==
    /\ last.op = "upgrade" /\ last.res = "none"
    /\ last.a \in Allocs /\ status[last.a] = "dropped"
    /\ \E w \in LiveWeaks : weaks[w] = last.a

\* ----------------------------------------------------------------- C6
C6_Step ==
    \A w \in LiveWeaks :
        weaks[w] = Dangling =>
            /\ weaks'[w] \in {Dangling, NoAlloc}
            /\ \A t \in Threads :
                  Upgrade(t, w) => last'.res = "none" /\ handles' = handles
                                   /\ strong' = strong

\* C6: a weak handle made by WeakPtr::new() refers to no allocation as
\* long as it lives, and every upgrade() of it returns None.
C6_EmptyWeakNeverUpgrades ==
    /\ [](last.op = "upgrade" /\ last.a = Dangling => last.res = "none")
    /\ [][C6_Step]_vars

\* C6 witness: upgrade() of a WeakPtr::new() handle has just returned
\* while a cell is alive and another has been dropped.
C6_Witness ==
    /\ last.op = "upgrade" /\ last.a = Dangling
    /\ \E a \in Allocs : strong[a] > 0
    /\ \E a \in Allocs : status[a] = "dropped"

\* ----------------------------------------------------------------- C7
C7_Enabled ==
    \A t \in Threads, h \in LiveHandles :
        (CanRun(t) /\ FreeHandles # {}) => ENABLED Clone(t, h)

C7_Step ==
    \A t \in Threads, h \in LiveHandles :
        Clone(t, h) =>
            /\ UNCHANGED <<value, status, borrow, locked, rwstate, guards,
                           committed, pc, req>>
            /\ strong'[handles[h]] = strong[handles[h]] + 1
            /\ \E h2 \in FreeHandles : handles'[h2] = handles[h]

\* C7: clone() of a strong handle can be taken by a running thread in
\* every state, whoever holds whatever guard; it changes neither a value
\* nor a lock or borrow state nor a guard, blocks nobody, and the new
\* handle is a handle to the same allocation.
C7_CloneFrame == []C7_Enabled /\ [][C7_Step]_vars

\* C7 witness: a clone has just been taken of a cell on which a write
\* guard is out.
C7_Witness ==
    /\ last.op = "clone"
    /\ WriteGuardsOn(last.a) # {}
    /\ Cardinality(HandlesTo(last.a)) >= 2

\* ----------------------------------------------------------------- C8
\* C8 (as claimed): in arc_mutex and arc_rwlock, after a holder panicked
\* while holding a guard on an allocation, every read() or write() on
\* that allocation is fatal.
C8_PoisonedIsFatal ==
    variant \in LockVariants =>
        ((last.op \in {"read", "write"} /\ unwound[last.a])
            => last.res = "panic")

C8_NeverFatal ==
    variant \in LockVariants =>
        ~(last.op \in {"read", "write"} /\ last.res = "panic")

C8_Step ==
    variant \in LockVariants =>
        \A t \in Threads, h \in LiveHandles :
            (/\ unwound[handles[h]]
             /\ GuardsOn(handles[h]) = {} /\ WaitingOn(handles[h]) = {}
             /\ Read(t, h) \/ Write(t, h))
            => last'.res = "granted"

\* C8 (amended): in arc_mutex and arc_rwlock no read() or write() is ever
\* fatal; a holder's panic drops its guards while unwinding and leaves no
\* poison, so a later request on that allocation is granted as soon as no
\* guard is out.
C8_NoPoisoning == []C8_NeverFatal /\ [][C8_Step]_vars

\* C8 witness: a request has been granted on an allocation whose earlier
\* holder panicked while holding a guard.
C8_Witness ==
    /\ variant \in LockVariants
    /\ Granted(last) /\ unwound[last.a]

\* ----------------------------------------------------------------- C9
C9_Held ==
    \A a \in Allocs :
        /\ variant = "rc_refcell" =>
              borrow[a] = IF WriteGuardsOn(a) # {} THEN -1
                          ELSE Cardinality(ReadGuardsOn(a))
        /\ variant = "arc_mutex" => (locked[a] <=> GuardsOn(a) # {})
        /\ variant = "arc_rwlock" =>
              /\ rwstate[a].readers = Cardinality(ReadGuardsOn(a))
              /\ rwstate[a].writer <=>
                    \/ WriteGuardsOn(a) # {}
                    \/ \E t \in WaitingOn(a) : pc[t] = "wait_readers"

C9_Step ==
    \A t \in Threads, h \in LiveHandles :
        (/\ GuardsOn(handles[h]) = {} /\ WaitingOn(handles[h]) = {}
         /\ Read(t, h) \/ Write(t, h))
        => last'.res = "granted"

\* C9: in every variant the lock or borrow is held exactly while a guard
\* on the allocation is out (or a writer that claimed the RwLock waits
\* for the readers): it is taken when the guard is returned and given
\* back when the guard is dropped, by its holder or by unwinding; once no
\* guard is out a request that conflicted is granted.
C9_HeldWhileGuardLives == []C9_Held /\ [][C9_Step]_vars

\* C9 witness: a write() that had to wait has been granted after the
\* guards in its way were dropped by a panic of their holder.
C9_Witness ==
    /\ last.op = "write" /\ last.res = "woken"
    /\ unwound[last.a]
    /\ \E t \in Threads : pc[t] = "dead"


\* ---------------------------------------------------------------- C10
\* parking_lot's Mutex and RwLock are eventually fair: a parked thread is
\* not passed over for ever by threads that keep re-taking the lock.
Fairness ==
    \A t \in Threads :
        /\ SF_vars(MutexWake(t))
        /\ SF_vars(RwWake(t))
        /\ SF_vars(RwReadersLeft(t))

\* The lock variants and the operations that touch a lock: the part of
\* the program a blocked request depends on.
LiveInit == Init /\ variant \in {"arc_mutex", "arc_rwlock"}

LiveNext ==
    \/ \E t \in Threads, v \in Values : New(t, v)
    \/ \E t \in Threads, h \in HandleIds : Read(t, h)
    \/ \E t \in Threads, h \in HandleIds : Write(t, h)
    \/ \E t \in Threads : MutexWake(t)
    \/ \E t \in Threads : RwWake(t)
    \/ \E t \in Threads : RwReadersLeft(t)
    \/ \E t \in Threads, g \in GuardIds : Release(t, g)
    \/ \E t \in Threads : Panic(t)

LiveSpec == LiveInit /\ [][LiveNext]_vars /\ Fairness

\* A guard held by another thread stands in the way of t's request.
Conflict(t, a, kind) ==
    \E g \in GuardsOn(a) :
        /\ guards[g].thread # t
        /\ variant = "arc_mutex" \/ kind = "write" \/ guards[g].kind = "write"

IsWaiting(t) == pc[t] \in {"wait_lock", "wait_readers"}

C10_Request ==
    variant \in LockVariants =>
        \A t \in Threads, h \in LiveHandles :
            /\ (Read(t, h) /\ Conflict(t, handles[h], "read"))
                  => last'.res = "blocked" /\ IsWaiting(t)' /\ NoNewGuard
            /\ (Write(t, h) /\ Conflict(t, handles[h], "write"))
                  => last'.res = "blocked" /\ IsWaiting(t)' /\ NoNewGuard

C10_StaysBlocked ==
    \A t \in Threads :
        (IsWaiting(t) /\ Conflict(t, handles[req[t].h], req[t].kind))
            => IsWaiting(t)' /\ GuardsOf(t)' = GuardsOf(t)

C10_EveryGuardReleased ==
    \A g \in GuardIds : []<>(guards[g] = NoGuard)

C10_Live ==
    C10_EveryGuardReleased =>
        \A t \in Threads : IsWaiting(t) ~> (pc[t] = "run" /\ GuardsOf(t) # {})

\* C10: in arc_mutex and arc_rwlock a read() or write() that conflicts
\* with a guard held by another thread does not fail: the caller parks,
\* stays parked while such a guard is out, and, if no guard is held for
\* ever, is eventually handed its guard.
C10_BlocksThenProceeds ==
    /\ [][C10_Request]_vars
    /\ [][C10_StaysBlocked]_vars
    /\ C10_Live

\* C10 witness: a thread that was parked behind another thread's guard
\* now holds its own guard.
C10_Witness ==
    /\ variant \in LockVariants
    /\ last.res = "woken"
    /\ \E g \in GuardsOf(last.t) : guards[g].kind = last.op

\* ---------------------------------------------------------------- C11
C11_Enabled ==
    \A t \in Threads :
        CanRun(t) =>
            /\ \A h \in LiveHandles :
                  FreeWeaks # {} => ENABLED Downgrade(t, h)
            /\ \A w \in LiveWeaks :
                  (CanUpgrade(w) => FreeHandles # {}) => ENABLED Upgrade(t, w)

C11_Frame ==
    UNCHANGED <<value, status, borrow, locked, rwstate, guards, committed,
                pc, req, unwound>>

C11_Step ==
    /\ \A t \in Threads, h \in LiveHandles : Downgrade(t, h) => C11_Frame
    /\ \A t \in Threads, w \in LiveWeaks :
          Upgrade(t, w) =>
              /\ C11_Frame
              /\ last'.res = (IF CanUpgrade(w) THEN "some" ELSE "none")

\* C11: downgrade() and upgrade() can be taken by a running thread in
\* every state, also while another thread holds a write guard on the
\* cell; they change neither a value nor a lock or borrow state nor a
\* guard, they park or kill no thread, and upgrade() returns a new strong
\* handle or nothing.
C11_WeakOpsNeverBlock == []C11_Enabled /\ [][C11_Step]_vars

\* C11 witness: an upgrade() has just returned a handle to a cell on which
\* a thread holds a write guard.
C11_Witness ==
    /\ variant \in LockVariants
    /\ last.op = "upgrade" /\ last.res = "some"
    /\ WriteGuardsOn(last.a) # {}
    /\ handles[last.val] = last.a

\* ------------------------------------- the derived operations in use
\* Cells are created, cloned, written and compared, hashed or printed.
CmpNext ==
    \/ \E t \in Threads, v \in Values : New(t, v)
    \/ \E t \in Threads, h \in HandleIds : Clone(t, h)
    \/ \E t \in Threads, h \in HandleIds : Write(t, h)
    \/ \E t \in Threads : MutexWake(t)
    \/ \E t \in Threads : RwWake(t)
    \/ \E t \in Threads : RwReadersLeft(t)
    \/ \E t \in Threads, g \in GuardIds, v \in Values : Store(t, g, v)
    \/ \E t \in Threads, g \in GuardIds : Release(t, g)
    \/ \E t \in Threads, op \in DerivedOps, l \in HandleIds,
          r \in HandleIds \cup {0} : CmpBegin(t, op, l, r)
    \/ \E t \in Threads : CmpRight(t)
    \/ \E t \in Threads : CmpFinish(t)

CmpSpec == Init /\ [][CmpNext]_vars

\* ---------------------------------------------------------------- C12
C12_Step ==
    \A t \in Threads :
        LET a == handles[call[t].l]
            b == handles[call[t].r]
        IN (call[t].op = "eq" /\ CmpFinish(t) /\ a # b) =>
              /\ last'.res = (IF value[a] = value[b] THEN "true" ELSE "false")
              /\ WriteGuardsOn(a) = {} /\ WriteGuardsOn(b) = {}
              /\ value[a] = committed[a] /\ value[b] = committed[b]

\* C12: a == b on two cells that are distinct allocations returns true
\* exactly when the two values are equal at the time of the comparison,
\* whichever allocations they are; the values compared are the ones the
\* last write guards left (no write guard is out during the comparison).
C12_EqByValue == [][C12_Step]_vars

\* C12 witness: two distinct allocations have just compared equal, and
\* the comparison has left no guard behind.
C12_Witness ==
    /\ last.op = "eq" /\ last.res = "true"
    /\ last.val \in Allocs /\ last.a # last.val
    /\ value[last.a] = value[last.val]
    /\ LiveGuards = {}

\* ---------------------------------------------------------------- C13
C13_Owner ==
    \A h \in LiveHandles :
        /\ status[handles[h]] = "live"
        /\ value[handles[h]] \in Values
        /\ strong[handles[h]] >= 1

C13_Step ==
    /\ \A t \in Threads, w \in LiveWeaks :
          (Upgrade(t, w) /\ weaks[w] \in Allocs /\ HandlesTo(weaks[w]) # {}) =>
              /\ last'.res = "some"
              /\ last'.val \in FreeHandles
              /\ handles'[last'.val] = weaks[w]
    /\ \A t \in Threads, g \in LiveGuards, v \in Values :
          Store(t, g, v) =>
              \A h \in HandlesTo(guards[g].alloc) : value'[handles'[h]] = v
    /\ \A t \in Threads, h \in LiveHandles :
          DropStrong(t, h) =>
              \A h2 \in HandlesTo(handles[h]) \ {h} :
                  value'[handles'[h2]] = value[handles[h]]

\* C13: upgrade() of a weak handle whose allocation has a live strong
\* handle returns a new strong handle to that allocation; the handle owns
\* like any other: a value stored through one handle is the value of
\* every handle of the allocation, and while any handle is left, dropping
\* the others leaves the value alive and as it was.
C13_UpgradeOwns == []C13_Owner /\ [][C13_Step]_vars

\* C13 witness: upgrade() has just returned a second strong handle to a
\* live allocation, and the value is there for both.
C13_Witness ==
    /\ last.op = "upgrade" /\ last.res = "some"
    /\ handles[last.val] = last.a
    /\ HandlesTo(last.a) # {last.val}
    /\ strong[last.a] = 2 /\ value[last.a] \in Values

\* ---------------------------------------------------------------- C14
C14_Counts ==
    \A a \in Allocs :
        /\ strong[a] = Cardinality(HandlesTo(a))
        /\ drops[a] = (IF status[a] = "dropped" THEN 1 ELSE 0)
        /\ (status[a] = "live") <=> (strong[a] >= 1)
        /\ (status[a] = "dropped") <=> (value[a] = Destroyed /\ drops[a] = 1)

C14_Step ==
    /\ \A t \in Threads, h \in LiveHandles :
          /\ Clone(t, h) => strong'[handles[h]] = strong[handles[h]] + 1
          /\ DropStrong(t, h) => strong'[handles[h]] = strong[handles[h]] - 1
          /\ Downgrade(t, h) => strong' = strong
    /\ \A t \in Threads, v \in Values :
          New(t, v) => \E a \in FreeAllocs : strong'[a] = 1
    /\ \A t \in Threads, w \in LiveWeaks :
          /\ Upgrade(t, w) =>
                IF CanUpgrade(w)
                THEN strong'[weaks[w]] = strong[weaks[w]] + 1
                ELSE strong' = strong
          /\ DropWeak(t, w) => strong' = strong
    /\ \A t \in Threads : WeakNew(t) => strong' = strong
    /\ \A a \in Allocs :
          /\ drops'[a] # drops[a] => strong[a] = 1 /\ strong'[a] = 0
          /\ (strong[a] = 1 /\ strong'[a] = 0) => drops'[a] = drops[a] + 1
          /\ status[a] = "dropped" => status'[a] = "dropped" /\ strong'[a] = 0

\* C14: the strong count of an allocation is the number of its live
\* strong handles: 1 after new(), one more per clone() and successful
\* upgrade(), one less per drop; weak handles never change it.  The value
\* is destroyed exactly once, in the step that takes the count from 1 to
\* 0, and a destroyed allocation never has a strong handle again.
C14_StrongCount == []C14_Counts /\ [][C14_Step]_vars

\* C14 witness: the last strong handle has just been dropped while a weak
\* handle is left; the value is destroyed, once.
C14_Witness ==
    /\ last.op = "drop" /\ last.val = 0
    /\ status[last.a] = "dropped" /\ drops[last.a] = 1
    /\ \E w \in LiveWeaks : weaks[w] = last.a

\* ---------------------------------------------------------------- C15
C15_Unused(a) ==
    /\ borrow[a] = 0
    /\ ~locked[a]
    /\ rwstate[a] = [writer |-> FALSE, readers |-> 0]

C15_Free ==
    \A a \in Allocs :
        (GuardsOn(a) = {} /\ WaitingOn(a) = {}) => C15_Unused(a)

C15_Untouched ==
    UNCHANGED <<value, status, strong, weak, drops, handles, weaks>>

\* The step in which thread t's derived operation returns.
C15_Returns(t) ==
    /\ call[t].op \in DerivedOps /\ call'[t] = NoCall
    /\ pc'[t] = "run"

C15_Step ==
    \A t \in Threads :
        /\ (call'[t] # call[t]
            /\ (call[t].op \in DerivedOps \/ call'[t].op \in DerivedOps))
              => C15_Untouched
        /\ C15_Returns(t) =>
              LET c == call[t]
                  operands == IF c.op \in BinaryOps THEN {c.l, c.r} ELSE {c.l}
              IN /\ Cardinality(Temporaries(t))
                       = (IF c.op \in BinaryOps THEN 2 ELSE 1)
                 /\ \A g \in Temporaries(t) :
                       guards[g].kind = "read" /\ guards[g].handle \in operands
                 /\ \A h \in operands :
                       \E g \in Temporaries(t) : guards[g].handle = h
                 /\ GuardsOf(t)' = c.held
                 /\ \A g \in GuardIds \ Temporaries(t) : guards'[g] = guards[g]
                 /\ \A h \in operands :
                       LET a == handles[h]
                           n == Cardinality({g \in Temporaries(t) :
                                                guards[g].alloc = a})
                       IN /\ borrow'[a] = borrow[a]
                                - (IF variant = "rc_refcell" THEN n ELSE 0)
                          /\ variant = "arc_mutex" => ~locked'[a]
                          /\ rwstate'[a].readers = rwstate[a].readers
                                - (IF variant = "arc_rwlock" THEN n ELSE 0)
        /\ (/\ last.op \in DerivedOps /\ last.t = t
            /\ last'.op = "write" /\ last'.t = t
            /\ GuardsOn(last'.a) = {} /\ WaitingOn(last'.a) = {})
              => last'.res = "granted"

\* C15: eq, partial_cmp, cmp, hash and fmt take one read guard per
\* operand and nothing else, and drop every one of them before they
\* return; no step of theirs changes a value, a strong or weak count or a
\* handle; when they return the caller holds the guards it held before
\* and the locks or borrows of the operands are back by exactly the
\* guards taken, so that a cell nobody else uses is unused and a write()
\* requested right after is granted.
C15_DerivedOpsFrame == []C15_Free /\ [][C15_Step]_vars

\* C15 witness: a cmp of two cells has just returned; no guard is out and
\* every lock and borrow is free.
C15_Witness ==
    /\ last.op = "cmp" /\ last.res = "less"
    /\ last.val \in Allocs /\ last.val # last.a
    /\ LiveGuards = {}
    /\ \A a \in Allocs : C15_Unused(a)
    /\ \A t \in Threads : call[t] = NoCall

\* ---------------------------------------------------------------- C16
\* Thread t is comparing two handles of one allocation (h with itself or
\* with a clone) and held no guard when it began.
C16_SelfCompare(t) ==
    /\ call[t].op \in BinaryOps
    /\ handles[call[t].l] = handles[call[t].r]
    /\ call[t].held = {}

\* Thread t is parked on a lock while it holds a guard on the same lock.
\* Nobody but t can drop that guard and t is parked: it never returns.
C16_ParkedBehindItself(t) ==
    /\ IsWaiting(t)
    /\ \E g \in GuardsOf(t) : guards[g].alloc = handles[req[t].h]

\* C16 (as claimed): in every variant, a comparison (==, partial_cmp, cmp)
\* of a strong handle with itself or with a clone of it, begun while the
\* caller holds no guard, returns: it is never parked behind the read
\* guard it holds itself, also while other threads request write() on the
\* same allocation.
C16_SelfCompareReturns ==
    \A t \in Threads : C16_SelfCompare(t) => ~C16_ParkedBehindItself(t)

\* C16, the part the code keeps: in rc_refcell such a comparison is never
\* fatal either, it returns.
C16_HoldsInRcRefCell ==
    variant = "rc_refcell" =>
        \A t \in Threads :
            (C16_SelfCompare(t) /\ pc[t] = "run")
                => ENABLED (CmpRight(t) \/ CmpFinish(t))

\* C16: in arc_rwlock the comparison is parked behind itself only when a
\* writer has claimed the lock between its two read() calls.
C16_RwLockNeedsWriter ==
    variant = "arc_rwlock" =>
        \A t \in Threads :
            (C16_SelfCompare(t) /\ C16_ParkedBehindItself(t)) =>
                \E u \in Threads \ {t} :
                    pc[u] = "wait_readers"
                    /\ handles[req[u].h] = handles[req[t].h]

\* ---------------------------------------------------------------- C17
\* Threads t and u are each inside a comparison, each holds a guard on the
\* cell the other is parked on.
C17_CrossParked(t, u) ==
    /\ t # u
    /\ call[t].op \in BinaryOps /\ call[u].op \in BinaryOps
    /\ IsWaiting(t) /\ IsWaiting(u)
    /\ handles[req[t].h] # handles[req[u].h]
    /\ \E g \in Temporaries(u) : guards[g].alloc = handles[req[t].h]
    /\ \E g \in Temporaries(t) : guards[g].alloc = handles[req[u].h]

\* C17 (as claimed): in arc_mutex and arc_rwlock, with one thread in
\* a == b and another in b == a on two distinct cells, no reachable state
\* has each thread holding one cell's guard and parked on the other's.
C17_NeverCrossParked ==
    variant \in LockVariants =>
        \A t, u \in Threads : ~C17_CrossParked(t, u)

C17_WriterClaimed(a) ==
    \E w \in Threads : pc[w] = "wait_readers" /\ handles[req[w].h] = a

\* C17 (amended): the state in which each of two comparing threads holds
\* one cell's guard and is parked on the other's is reached only in
\* arc_mutex, by comparisons that take the two cells in opposite orders,
\* or in arc_rwlock when writers have claimed both cells in between; in
\* arc_rwlock the read guards of a == b and b == a otherwise coexist.
C17_CrossParkedOnlyExclusive ==
    variant \in LockVariants =>
        \A t, u \in Threads :
            C17_CrossParked(t, u) =>
                \/ /\ variant = "arc_mutex"
                   /\ handles[call[t].l] = handles[call[u].r]
                   /\ handles[call[t].r] = handles[call[u].l]
                \/ /\ variant = "arc_rwlock"
                   /\ C17_WriterClaimed(handles[req[t].h])
                   /\ C17_WriterClaimed(handles[req[u].h])

\* C17 witness: in arc_rwlock one thread is in a == b and the other in
\* b == a, and each holds the read guards of both cells.
C17_Witness ==
    /\ variant = "arc_rwlock"
    /\ \E t, u \in Threads :
          /\ t # u
          /\ call[t].op = "eq" /\ call[u].op = "eq"
          /\ call[t].stage = "right" /\ call[u].stage = "right"
          /\ pc[t] = "run" /\ pc[u] = "run"
          /\ handles[call[t].l] # handles[call[t].r]
          /\ handles[call[t].l] = handles[call[u].r]
          /\ handles[call[t].r] = handles[call[u].l]
          /\ Cardinality(Temporaries(t)) = 2
          /\ Cardinality(Temporaries(u)) = 2

\* ---------------------------------------------------------------- C18
\* The thread-safe variants with upgrade() taken step by step, against
\* the operations that change the counts.
RaceInit == Init /\ variant \in {"arc_mutex", "arc_rwlock"}

RaceNext ==
    \/ \E t \in Threads, v \in Values : New(t, v)
    \/ \E t \in Threads, h \in HandleIds : Clone(t, h)
    \/ \E t \in Threads, h \in HandleIds : DropStrong(t, h)
    \/ \E t \in Threads, h \in HandleIds : Downgrade(t, h)
    \/ \E t \in Threads, w \in WeakIds : DropWeak(t, w)
    \/ \E t \in Threads, w \in WeakIds : UpgradeLoad(t, w)
    \/ \E t \in Threads : UpgradeCas(t)

RaceSpec == RaceInit /\ [][RaceNext]_vars

C18_Outcomes ==
    /\ \A h \in LiveHandles :
          status[handles[h]] = "live" /\ value[handles[h]] \in Values
    /\ \A a \in Allocs : drops[a] <= 1
    /\ (last.op = "upgrade" /\ last.res = "some") =>
          /\ handles[last.val] = last.a
          /\ status[last.a] = "live" /\ value[last.a] \in Values
    /\ (last.op = "upgrade" /\ last.res = "none" /\ last.a \in Allocs) =>
          /\ status[last.a] = "dropped" /\ value[last.a] = Destroyed
          /\ HandlesTo(last.a) = {}

C18_Step ==
    \A a \in Allocs :
        /\ value'[a] # value[a] /\ value'[a] = Destroyed
              => HandlesTo(a)' = {} /\ drops[a] = 0
        /\ status[a] = "dropped" => HandlesTo(a)' = {}

\* C18: in arc_mutex and arc_rwlock, with upgrade() running step by step
\* beside a drop of the last strong handle, upgrade() returns either a
\* handle to a value that is alive, and stays alive while the handle
\* does, or nothing, and then the value has been destroyed; no handle is
\* ever handed out to a destroyed value and no value is destroyed twice.
C18_UpgradeOrDrop == []C18_Outcomes /\ [][C18_Step]_vars

\* C18 witness: an upgrade() has loaded a strong count of 1, and before
\* its compare-and-swap another thread has dropped the last strong handle.
C18_Witness ==
    /\ last.op = "drop" /\ last.val = 0
    /\ \E t \in Threads :
          /\ call[t].op = "upgrade" /\ call[t].seen = 1
          /\ weaks[call[t].w] = last.a
          /\ status[last.a] = "dropped"

\* ---------------------------------------------------------------- C19
C19_Alive ==
    \A g \in LiveGuards :
        LET a == guards[g].alloc
        IN /\ guards[g].handle \in LiveHandles
           /\ handles[guards[g].handle] = a
           /\ strong[a] >= 1
           /\ status[a] = "live" /\ value[a] \in Values

C19_HandleKept ==
    \A t \in Threads, h \in LiveHandles :
        Borrowed(h) => ~ENABLED DropStrong(t, h)

\* C19: while a read or write guard is out, the handle it was taken from
\* cannot be dropped, so its allocation has a live strong handle and the
\* value is not destroyed.
C19_GuardNeverOutlivesValue == C19_Alive /\ C19_HandleKept

\* C19 witness: a guard is out on an allocation whose other strong handle
\* has just been dropped; the guard's own handle is the one left.
C19_Witness ==
    /\ last.op = "drop" /\ last.val = 1
    /\ \E g \in LiveGuards :
          /\ guards[g].alloc = last.a
          /\ HandlesTo(last.a) = {guards[g].handle}

====
